---------------------------- MODULE Spec2Model ----------------------------
(***************************************************************************)
(* Model of src/app.py (AdGuard DNS analytics dashboard).                  *)
(*                                                                         *)
(* The script is re-executed top to bottom by the hosting framework on     *)
(* every user interaction.  One execution is modelled as a chain of steps  *)
(* (pc): the two cached loaders, the normalisation of the frame, the five  *)
(* sidebar filters, the overview metrics, the chart aggregations and the   *)
(* raw table.  Where the outcome of a step is not fixed by the script (the *)
(* order a default sort leaves equal keys in, the last digit of a float    *)
(* half way between two tenths) the step yields every outcome.             *)
(* The pure helpers extract_top_level_domain and get_filter_reason are     *)
(* operators; strings they take apart are sequences of one-character       *)
(* strings, so that lower(), split(".") and the f-string joins are         *)
(* computed and not assumed.                                               *)
(*                                                                         *)
(* Time is counted in minutes.  Timestamps (column T) are minutes too; a   *)
(* calendar date is T \div 1440.  An execution takes no time: the clock    *)
(* moves and the files change between executions.                          *)
(***************************************************************************)
EXTENDS Integers, Sequences, FiniteSets, TLC

VARIABLES
    \* --- environment -------------------------------------------------
    clock,          \* wall clock, minutes
    qFile,          \* data/querylog.json: Missing or a sequence of lines
    lFile,          \* data/leases.json: Missing or a sequence of lease entries
    \* --- process-wide state: the two st.cache_data entries ---------------
    qCache,         \* [valid, at, value] of load_querylog
    lCache,         \* [valid, at, value] of load_leases
    \* --- one script execution ----------------------------------------
    pc,             \* position of the script
    qRead,          \* [done, age]: load_querylog's body read the file in this
                    \* execution, and the age its cached value had then
                    \* (NoAge when nothing was cached)
    lRead,          \* the same for load_leases
    df,             \* the data frame: a sequence of rows
    cached_col,     \* "Cached" in df.columns
    upstream_col,   \* "Upstream" in df.columns
    ip_to_hostname, \* the lease mapping, a set of <<ip, hostname>> pairs
    normalized,     \* the frame as it left the normalisation (lines 121-128)
    now,            \* datetime.now() read at line 143
    time_range, date_range,
    selected_clients, selected_domains, selected_query_types, filter_selection,
    st_error,       \* what st.error / an uncaught exception put on the page
    metrics,        \* the five st.metric values
    charts,         \* the grouped tables handed to the charts
    raw_table,      \* the table under "Show raw query data"
    \* --- harness of the pure helpers -----------------------------------
    labels, host, tld, tpc,     \* extract_top_level_domain: input and output
    result, filter_status, is_filtered, fpc   \* get_filter_reason and line 126

vars == << clock, qFile, lFile, qCache, lCache, pc, qRead, lRead, df, cached_col, upstream_col,
           ip_to_hostname, normalized, now, time_range, date_range,
           selected_clients, selected_domains, selected_query_types,
           filter_selection, st_error, metrics, charts, raw_table,
           labels, host, tld, tpc, result, filter_status, is_filtered, fpc >>

envVars   == << clock, qFile, lFile >>
cacheVars == << qCache, lCache >>
runVars   == << pc, qRead, lRead, df, cached_col, upstream_col, ip_to_hostname, normalized, now, time_range, date_range,
                selected_clients, selected_domains, selected_query_types,
                filter_selection, st_error, metrics, charts, raw_table >>
tldVars   == << labels, host, tld, tpc >>
clsVars   == << result, filter_status, is_filtered, fpc >>

-----------------------------------------------------------------------------
(* Strings as sequences of characters                                      *)

UpperChars == << "A","B","C","D","E","F","G","H","I","J","K","L","M",
                 "N","O","P","Q","R","S","T","U","V","W","X","Y","Z" >>
LowerChars == << "a","b","c","d","e","f","g","h","i","j","k","l","m",
                 "n","o","p","q","r","s","t","u","v","w","x","y","z" >>

\* str.lower() on one character
LowerChar(c) ==
    IF \E i \in 1..26 : UpperChars[i] = c
    THEN LowerChars[CHOOSE i \in 1..26 : UpperChars[i] = c]
    ELSE c

\* str.lower()
Lower(s) == [i \in 1..Len(s) |-> LowerChar(s[i])]

\* str.split("."): one part per dot plus one, empty parts kept
RECURSIVE SplitDots(_)
SplitDots(s) ==
    IF \A i \in 1..Len(s) : s[i] # "."
    THEN << s >>
    ELSE LET d == CHOOSE i \in 1..Len(s) :
                     s[i] = "." /\ \A j \in 1..(i-1) : s[j] # "."
         IN  << SubSeq(s, 1, d - 1) >> \o SplitDots(SubSeq(s, d + 1, Len(s)))

\* f"{a}.{b}"
Dot(a, b) == a \o << "." >> \o b

\* ".".join(parts), parts non-empty
RECURSIVE JoinDots(_)
JoinDots(parts) ==
    IF Len(parts) = 1 THEN parts[1]
    ELSE Dot(JoinDots(SubSeq(parts, 1, Len(parts) - 1)), parts[Len(parts)])

s_co   == << "c","o" >>
s_uk   == << "u","k" >>
s_com  == << "c","o","m" >>
s_au   == << "a","u" >>
s_nz   == << "n","z" >>
s_jp   == << "j","p" >>
s_br   == << "b","r" >>
s_org  == << "o","r","g" >>
s_net  == << "n","e","t" >>
s_ac   == << "a","c" >>
s_gov  == << "g","o","v" >>
s_3gpp == << "3","g","p","p","n","e","t","w","o","r","k" >>
s_www  == << "w","w","w" >>
s_Mail == << "M","a","i","l" >>
s_CO   == << "C","o" >>
s_google == << "g","o","o","g","l","e" >>
s_ads  == << "a","d","s" >>
s_Localhost == << "L","o","c","a","l","h","o","s","t" >>

-----------------------------------------------------------------------------
(* extract_top_level_domain, lines 51-90                                   *)

MultiPartTldsNoOrgUk ==
    { Dot(s_co, s_uk), Dot(s_com, s_au), Dot(s_co, s_nz), Dot(s_co, s_jp),
      Dot(s_com, s_br), Dot(s_net, s_au), Dot(s_ac, s_uk),
      Dot(s_gov, s_uk), Dot(s_3gpp, s_org) }

multi_part_tlds ==
    { Dot(s_co, s_uk), Dot(s_com, s_au), Dot(s_co, s_nz), Dot(s_co, s_jp),
      Dot(s_com, s_br), Dot(s_org, s_uk), Dot(s_net, s_au), Dot(s_ac, s_uk),
      Dot(s_gov, s_uk), Dot(s_3gpp, s_org) }

\* the function with the single-label fall-through returning the folded
\* part instead of the argument
ExtractFoldingSingleLabel(h) ==
    IF h = << >> THEN << >>
    ELSE LET parts == SplitDots(Lower(h))
             n     == Len(parts)
         IN  IF n >= 2
             THEN IF n >= 3 /\ Dot(parts[n-1], parts[n]) \in multi_part_tlds
                  THEN Dot(Dot(parts[n-2], parts[n-1]), parts[n])
                  ELSE Dot(parts[n-1], parts[n])
             ELSE parts[1]

extract_top_level_domain(h) ==
    IF h = << >> THEN << >>
    ELSE LET parts == SplitDots(Lower(h))
             n     == Len(parts)
         IN  IF n >= 2
             THEN IF n >= 3 /\ Dot(parts[n-1], parts[n]) \in multi_part_tlds
                  THEN Dot(Dot(parts[n-2], parts[n-1]), parts[n])
                  ELSE Dot(parts[n-1], parts[n])
             ELSE h

-----------------------------------------------------------------------------
(* get_filter_reason, lines 93-110, and the is_filtered lambda, line 126   *)
(*                                                                         *)
(* A raw Result value is a record                                          *)
(*   kind      "absent" (the row has no Result key: the frame holds NaN),  *)
(*             "null", "str" (a JSON string), "num" (a non-zero number),   *)
(*             "obj" (a JSON object)                                       *)
(*   hasReason, reason   the object's Reason: [isInt, v]; isInt = FALSE is *)
(*                       JSON null (None)                                  *)
(*   hasFlag, flag       the object's IsFiltered                           *)
(*   other     the object has further keys                                 *)

NoReason == [isInt |-> TRUE, v |-> 0]
IntReason(n) == [isInt |-> TRUE, v |-> n]
NoneReason == [isInt |-> FALSE, v |-> 0]

NonObj(k) == [kind |-> k, hasReason |-> FALSE, reason |-> NoReason,
              hasFlag |-> FALSE, flag |-> FALSE, other |-> FALSE]
Obj(hr, r, hf, f, o) == [kind |-> "obj", hasReason |-> hr, reason |-> r,
                         hasFlag |-> hf, flag |-> f, other |-> o]

\* isinstance(x, dict)
IsDict(x) == x.kind = "obj"

\* bool(x): NaN, a non-empty string and a non-zero number are true, None
\* and the empty dict are false
Truthy(x) ==
    CASE x.kind = "null" -> FALSE
      [] x.kind = "obj"  -> x.hasReason \/ x.hasFlag \/ x.other
      [] OTHER           -> TRUE

\* str(reason) inside the f-string of line 110
ReasonStr(r) == IF r.isInt THEN ToString(r.v) ELSE "None"

\* the table with the entry of code 7 lost
ReasonCodesShort(n) ==
    CASE n = 0 -> "Not Filtered"
      [] n = 1 -> "Blocked by Filter"
      [] n = 2 -> "Blocked (Safebrowsing)"
      [] n = 3 -> "Blocked by Rule"
      [] n = 4 -> "Blocked (Parental)"
      [] n = 5 -> "Rewritten"
      [] n = 6 -> "Rewritten (Hosts)"
      [] OTHER -> "Unknown (" \o ToString(n) \o ")"

\* reason_codes.get(n, f"Unknown ({n})") for an integer n, lines 98-110
reason_codes(n) ==
    CASE n = 0 -> "Not Filtered"
      [] n = 1 -> "Blocked by Filter"
      [] n = 2 -> "Blocked (Safebrowsing)"
      [] n = 3 -> "Blocked by Rule"
      [] n = 4 -> "Blocked (Parental)"
      [] n = 5 -> "Rewritten"
      [] n = 6 -> "Rewritten (Hosts)"
      [] n = 7 -> "Rewritten (Safe Search)"
      [] OTHER -> "Unknown (" \o ToString(n) \o ")"

\* the function without its first guard: a value that is no dict has no
\* label
GetFilterReasonUnguarded(x) ==
    IF ~IsDict(x) THEN "None"
    ELSE LET reason == IF x.hasReason THEN x.reason ELSE NoReason
         IN  IF reason.isInt THEN reason_codes(reason.v)
             ELSE "Unknown (" \o ReasonStr(reason) \o ")"

get_filter_reason(x) ==
    IF ~Truthy(x) \/ ~IsDict(x) THEN "Not Filtered"
    ELSE LET reason == IF x.hasReason THEN x.reason ELSE NoReason
         IN  IF reason.isInt THEN reason_codes(reason.v)
             ELSE "Unknown (" \o ReasonStr(reason) \o ")"

\* lambda x: x.get("IsFiltered", False) if isinstance(x, dict) else False
is_filtered_of(x) == IF IsDict(x) THEN (IF x.hasFlag THEN x.flag ELSE FALSE) ELSE FALSE

-----------------------------------------------------------------------------
(* Files and rows                                                          *)

\* the resolver a record names under its Upstream key
UpstreamDNS == "9.9.9.9"

\* one JSON object of the query log, keys T, IP, QH, QT, Result, Cached,
\* Upstream; the last three may be missing
RawRow(t, ip, qh, qt, res, hasCached, cached, hasUpstream) ==
    [T |-> t, IP |-> ip, QH |-> qh, QT |-> qt, Result |-> res,
     hasCached |-> hasCached, Cached |-> cached,
     hasUpstream |-> hasUpstream,
     Upstream |-> IF hasUpstream THEN UpstreamDNS ELSE ""]

\* one line of the query log: blank (white space only), bad (no JSON), or
\* a JSON object
BlankLine == [kind |-> "blank", rec |-> RawRow(0, "", << >>, "", NonObj("null"), FALSE, FALSE, FALSE)]
BadLine   == [kind |-> "bad",   rec |-> RawRow(0, "", << >>, "", NonObj("null"), FALSE, FALSE, FALSE)]
JsonLine(r) == [kind |-> "json", rec |-> r]

MissingFile == [present |-> FALSE, content |-> << >>]
File(c)     == [present |-> TRUE, content |-> c]

EmptyDict == [x \in {} |-> ""]

\* dict.get(k, k)
DictGet(d, k) == IF k \in DOMAIN d THEN d[k] ELSE k

SeqRange(s) == { s[i] : i \in 1..Len(s) }
Front(s) == SubSeq(s, 1, Len(s) - 1)

-----------------------------------------------------------------------------
(* load_querylog, lines 19-32, and load_leases, lines 35-48                *)

\* the lines left after line.strip() and "if line"
NonBlank(lines) == SelectSeq(lines, LAMBDA l : l.kind # "blank")

\* the body of load_querylog: open() raises on a missing file, json.loads
\* raises on the first line that is no JSON, and df["T"] raises on a frame
\* built from no record at all (it has no column T)
load_querylog(f) ==
    IF ~f.present THEN [exc |-> "FileNotFoundError", value |-> << >>]
    ELSE LET kept == NonBlank(f.content)
         IN  IF \E i \in 1..Len(kept) : kept[i].kind = "bad"
             THEN [exc |-> "JSONDecodeError", value |-> << >>]
             ELSE IF kept = << >>
             THEN [exc |-> "KeyError: 'T'", value |-> << >>]
             ELSE [exc |-> "", value |-> [i \in 1..Len(kept) |-> kept[i].rec]]

\* the loop of lines 42-47: later entries overwrite earlier ones
RECURSIVE LeaseDict(_)
LeaseDict(es) ==
    IF es = << >> THEN EmptyDict
    ELSE LET m == LeaseDict(Front(es))
             e == es[Len(es)]
         IN  IF e.ip # "" /\ e.hostname # ""
             THEN [x \in DOMAIN m \cup {e.ip} |->
                      IF x = e.ip THEN e.hostname ELSE m[x]]
             ELSE m

\* the body of load_leases; a lease without "ip" or "hostname" reads as ""
load_leases(f) ==
    IF ~f.present THEN [exc |-> "FileNotFoundError", value |-> EmptyDict]
    ELSE [exc |-> "", value |-> LeaseDict(f.content)]

-----------------------------------------------------------------------------
(* st.cache_data(ttl=...), lines 19 and 35                                 *)

QueryLogTTL == 5
LeasesTTL == 60
NoAge == 0 - 1

EmptyCache(v) == [valid |-> FALSE, at |-> 0, value |-> v]

\* both loaders decorated with the time to live of the query log
IsFreshFiveMinutes(c, ttl, t) == c.valid /\ t - c.at < QueryLogTTL

\* the entry holds a value younger than its time to live
IsFresh(c, ttl, t) == c.valid /\ t - c.at < ttl

NotRead == [done |-> FALSE, age |-> NoAge]

\* the body runs: the age the cached value has then
ReadAt(c, t) == [done |-> TRUE, age |-> IF c.valid THEN t - c.at ELSE NoAge]

-----------------------------------------------------------------------------
(* The script, lines 113-485                                               *)

MinutesPerHour == 60
MinutesPerDay == 1440

NoDateRange == [complete |-> FALSE, start |-> 0, end |-> 0]
NoMetrics == [shown |-> FALSE, total |-> 0, blocked |-> 0, blocked_pct |-> 0,
              unique_domains |-> 0, unique_clients |-> 0,
              cached_na |-> FALSE, cached |-> 0, cached_pct |-> 0]
NoCharts == [shown |-> FALSE, timeline |-> {}, hourly_counts |-> {},
             top_domains |-> {}, top_10_domains |-> {}, query_types |-> {},
             client_queries |-> {}, top_clients |-> {}, client_stats |-> << >>,
             filter_counts |-> {},
             blocked_domains |-> {}, blocked_timeline |-> {}]

\* the handler of lines 117-119 without its st.stop()
AfterLoadErrorNoStop == "normalize"

\* where the script stands after the handler of lines 117-119: st.stop()
AfterLoadError == "stopped"

\* lines 122-128 for one row; hasCachedCol says whether the frame has a
\* column Cached, in which a row without the key holds NaN
NormalizeRow(r, leases, hasCachedCol) ==
    [T |-> r.T, IP |-> r.IP, QH |-> r.QH, QT |-> r.QT, Result |-> r.Result,
     hasCached |-> r.hasCached, Cached |-> r.Cached,
     hasUpstream |-> r.hasUpstream, Upstream |-> r.Upstream,
     is_cached |-> [nan |-> hasCachedCol /\ ~r.hasCached,
                    v   |-> hasCachedCol /\ r.hasCached /\ r.Cached],
     hostname |-> DictGet(leases, r.IP),
     top_level_domain |-> extract_top_level_domain(r.QH),
     filter_status |-> get_filter_reason(r.Result),
     is_filtered |-> is_filtered_of(r.Result)]

\* df[col].unique(); col names a column
Unique(frame, col) == { frame[i][col] : i \in 1..Len(frame) }

\* .date() of a timestamp
DateOf(t) == t \div MinutesPerDay

\* the three quick ranges of lines 144-152
RangeMinutes(tr) ==
    CASE tr = "Last 24 Hours" -> 24 * MinutesPerHour
      [] tr = "Last Week"     -> 7 * MinutesPerDay
      [] tr = "Last Month"    -> 30 * MinutesPerDay

\* lines 143-166; df[mask] keeps the rows that pass, in their order
TimeFiltered(frame, tr, dr, t) ==
    IF tr \in {"Last 24 Hours", "Last Week", "Last Month"}
    THEN SelectSeq(frame, LAMBDA r : r.T >= t - RangeMinutes(tr))
    ELSE IF Len(frame) > 0 /\ dr.complete
    THEN SelectSeq(frame, LAMBDA r : DateOf(r.T) >= dr.start /\ DateOf(r.T) <= dr.end)
    ELSE frame

\* a multiselect filter that also filters on an empty selection
IsinFilteredStrict(frame, col, sel) ==
    SelectSeq(frame, LAMBDA r : r[col] \in sel)

\* "if selected: df = df[df[col].isin(selected)]", lines 177-178, 189-190,
\* 201-202
IsinFiltered(frame, col, sel) ==
    IF sel # {} THEN SelectSeq(frame, LAMBDA r : r[col] \in sel) ELSE frame

\* lines 208-211
StatusFiltered(frame, fs) ==
    CASE fs = "Filtered Only"     -> SelectSeq(frame, LAMBDA r : r.is_filtered)
      [] fs = "Not Filtered Only" -> SelectSeq(frame, LAMBDA r : ~r.is_filtered)
      [] OTHER                    -> frame

\* df["is_filtered"].sum()
BlockedSum(frame) == Len(SelectSeq(frame, LAMBDA r : r.is_filtered))

\* df["Cached"].fillna(False).sum(): a row without the key counts as False
CachedSum(frame) == Len(SelectSeq(frame, LAMBDA r : r.hasCached /\ r.Cached))

\* 0 / 0 as a float, and what ":.1f" shows of it
NaN == [num |-> 0, den |-> 0]
NaNTenths == 0 - 1

RECURSIVE GCD(_, _)
GCD(a, b) == IF b = 0 THEN a ELSE GCD(b, a % b)

\* the float a / b, kept as the fraction in lowest terms
Frac(a, b) == LET g == GCD(a, b) IN [num |-> a \div g, den |-> b \div g]

\* the percentage without the "if len(df) > 0" guard: 0 / 0
PctUnguarded(n, total) ==
    IF total = 0 THEN NaN ELSE Frac(n * 100, total)

\* (n / len(df) * 100) if len(df) > 0 else 0, lines 223 and 237
Pct(n, total) == IF total > 0 THEN Frac(n * 100, total) ELSE Frac(0, 1)

\* f"{x:.1f}" (lines 224, 238) and .round(1) (line 371), in tenths: the
\* tenth nearest to x.  Where x lies half way between two tenths the last
\* bits of the binary float decide, and either neighbour is an outcome.
Tenths(x) ==
    IF x.den = 0 THEN {NaNTenths}
    ELSE LET q == (x.num * 10) \div x.den
             r == (x.num * 10) % x.den
         IN  IF 2 * r < x.den THEN {q}
             ELSE IF 2 * r > x.den THEN {q + 1}
             ELSE {q, q + 1}

\* sort_values(..., ascending=False) with the default sort kind, which is
\* not a stable one: the orders it can leave the items of DOMAIN key in,
\* largest key first, items of equal key in any order
Descending(key) ==
    LET k == Cardinality(DOMAIN key)
    IN  { o \in [1..k -> DOMAIN key] :
            /\ \A i, j \in 1..k : i # j => o[i] # o[j]
            /\ \A i \in 1..(k - 1) : key[o[i]] >= key[o[i + 1]] }

\* series.value_counts() and groupby(col).size(): the set of
\* <<value, count>> groups
ValueCounts(frame, col) ==
    { << k, Len(SelectSeq(frame, LAMBDA r : r[col] = k)) >> : k \in Unique(frame, col) }

\* .head(n) of a value_counts(): the first n groups of the counts sorted
\* largest first.  The sort is the default one, so which of several groups
\* of the same count come first is its choice: every set of n groups that
\* no left-out group outnumbers is an outcome.
TopN(groups, n) ==
    IF Cardinality(groups) <= n THEN {groups}
    ELSE { top \in SUBSET groups :
            /\ Cardinality(top) = n
            /\ \A g \in top, h \in groups \ top : g[2] >= h[2] }

TopDomains == 20
TopTen == 10

\* lines 358-372: per client, queries, distinct domains, blocked and the
\* rate rounded to a tenth (in tenths of a percent), sorted by queries,
\* largest first; the set of tables this can give
ClientStats(frame) ==
    LET clients == Unique(frame, "hostname")
        k == Cardinality(clients)
        Rows(c) == SelectSeq(frame, LAMBDA r : r.hostname = c)
        Rates(c) == Tenths(Frac(BlockedSum(Rows(c)) * 100, Len(Rows(c))))
        orders == Descending([c \in clients |-> Len(Rows(c))])
        rates == [1..k -> UNION { Rates(c) : c \in clients }]
    IN  { [i \in 1..k |->
             [Client |-> p[1][i],
              Total_Queries |-> Len(Rows(p[1][i])),
              Unique_Domains |-> Cardinality(Unique(Rows(p[1][i]), "top_level_domain")),
              Blocked |-> BlockedSum(Rows(p[1][i])),
              Block_Rate |-> p[2][i]]]
          : p \in { q \in orders \X rates :
                      \A i \in 1..k : q[2][i] \in Rates(q[1][i]) } }

\* the hour a timestamp falls in: pd.Grouper(freq="h"), resample("h")
HourOf(t) == t \div MinutesPerHour

\* the keys of groupby([pd.Grouper(key="T", freq="h"), "hostname"])
HourBuckets(frame) ==
    [i \in 1..Len(frame) |-> [bucket |-> << HourOf(frame[i].T), frame[i].hostname >>]]

\* df["hour"] = df["T"].dt.hour, line 279: the frame with the new column
AddHour(frame) ==
    [i \in 1..Len(frame) |->
        [T |-> frame[i].T, IP |-> frame[i].IP, QH |-> frame[i].QH,
         QT |-> frame[i].QT, Result |-> frame[i].Result,
         hasCached |-> frame[i].hasCached, Cached |-> frame[i].Cached,
         hasUpstream |-> frame[i].hasUpstream, Upstream |-> frame[i].Upstream,
         is_cached |-> frame[i].is_cached,
         hostname |-> frame[i].hostname,
         top_level_domain |-> frame[i].top_level_domain,
         filter_status |-> frame[i].filter_status,
         is_filtered |-> frame[i].is_filtered,
         hour |-> HourOf(frame[i].T) % 24]]

\* blocked_df.set_index("T").resample("h").size(): every hour from the
\* first to the last blocked row, empty hours included
Resampled(frame) ==
    LET hours == { HourOf(frame[i].T) : i \in 1..Len(frame) }
        lo == CHOOSE h \in hours : \A g \in hours : h <= g
        hi == CHOOSE h \in hours : \A g \in hours : h >= g
    IN  { << h, Len(SelectSeq(frame, LAMBDA r : HourOf(r.T) = h)) >> : h \in lo..hi }

\* lines 216-240: the metrics the page can show; the two percentages are
\* held as shown, in tenths
Overview(frame, hasCachedCol) ==
    LET blockedRows == BlockedSum(frame)
        cachedRows  == CachedSum(frame)
    IN  { [shown |-> TRUE,
           total |-> Len(frame),
           blocked |-> blockedRows,
           blocked_pct |-> b,
           unique_domains |-> Cardinality(Unique(frame, "top_level_domain")),
           unique_clients |-> Cardinality(Unique(frame, "hostname")),
           cached_na |-> ~hasCachedCol,
           cached |-> IF hasCachedCol THEN cachedRows ELSE 0,
           cached_pct |-> c]
          : b \in Tenths(Pct(blockedRows, Len(frame))),
            c \in IF hasCachedCol THEN Tenths(Pct(cachedRows, Len(frame))) ELSE {0} }

\* lines 249-444: the grouped tables the charts can be drawn from
Charts(frame) ==
    LET blocked_df == SelectSeq(frame, LAMBDA r : r.is_filtered)
        domains == ValueCounts(frame, "top_level_domain")
        \* both heads are cut from the same sorted counts
        heads == { q \in TopN(domains, TopDomains) \X TopN(domains, TopTen) :
                     q[2] \subseteq q[1] }
    IN  { [shown |-> TRUE,
           timeline |->
               IF Len(frame) > 0
               THEN ValueCounts(HourBuckets(frame), "bucket")
               ELSE {},
           hourly_counts |->
               IF Len(frame) > 0
               THEN ValueCounts(AddHour(frame), "hour")
               ELSE {},
           top_domains |-> h[1],
           top_10_domains |-> h[2],
           query_types |-> ValueCounts(frame, "QT"),
           client_queries |-> ValueCounts(frame, "hostname"),
           top_clients |-> tc,
           client_stats |-> cs,
           filter_counts |-> ValueCounts(frame, "filter_status"),
           blocked_domains |-> bd,
           blocked_timeline |->
               IF Len(blocked_df) > 0 THEN Resampled(blocked_df) ELSE {}]
          : h \in heads,
            tc \in TopN(ValueCounts(frame, "hostname"), TopDomains),
            cs \in ClientStats(frame),
            bd \in IF Len(blocked_df) > 0
                   THEN TopN(ValueCounts(blocked_df, "top_level_domain"), TopTen)
                   ELSE {{}} }

\* display_df.head(500), line 480
TableHead == 500

NoTable == [shown |-> FALSE, search |-> "", rows |-> << >>, caption |-> FALSE]

\* the seven columns of lines 451-470 under their new names; a row
\* without the Upstream key holds NaN
DisplayRow(r) ==
    [Time |-> r.T, Client |-> r.hostname, Queried_Host |-> r.QH,
     Top_Level_Domain |-> r.top_level_domain, Query_Type |-> r.QT,
     Status |-> r.filter_status,
     Upstream_DNS |-> [nan |-> ~r.hasUpstream, v |-> r.Upstream]]

\* the labels str(row) prints in front of the seven cells, lower-cased
ColumnLabels == {"time", "client", "queried host", "top-level domain",
                 "query type", "status", "upstream dns"}

\* what is typed into the search box: nothing, a column label, the name of
\* a client, and a text no row holds; all in lower case, as search.lower()
\* leaves them
SearchTerms == {"", "client", "10.0.0.2", "desk", "zzz"}

\* search.lower() in str(row).lower(), line 476, for the terms above: the
\* text of a row holds its labels and its cells, and no other cell of the
\* rows modelled holds the name of a client
RowMatches(term, row) == term \in ColumnLabels \/ term = row.Client

\* lines 451-485: the tables the page can show for a search term
RawTable(frame, search) ==
    LET n == Len(frame)
        orders == Descending([i \in 1..n |-> frame[i].T])
        Found(t) == IF search # ""
                    THEN SelectSeq(t, LAMBDA row : RowMatches(search, row))
                    ELSE t
        Table(t) == [shown |-> TRUE, search |-> search,
                     rows |-> SubSeq(t, 1, IF Len(t) < TableHead THEN Len(t) ELSE TableHead),
                     caption |-> Len(t) > TableHead]
    IN  { Table(Found([i \in 1..n |-> DisplayRow(frame[o[i]])])) : o \in orders }

-----------------------------------------------------------------------------
(* The steps of one execution                                              *)

Ended == {"done", "stopped", "crashed"}

\* line 115 inside the try of lines 114-119
LoadQuerylogStep ==
    /\ pc = "start"
    /\ IF IsFresh(qCache, QueryLogTTL, clock)
       THEN /\ df' = qCache.value
            /\ cached_col' = \E i \in 1..Len(qCache.value) : qCache.value[i].hasCached
            /\ upstream_col' = \E i \in 1..Len(qCache.value) : qCache.value[i].hasUpstream
            /\ pc' = "load_leases"
            /\ UNCHANGED << qCache, qRead, st_error >>
       ELSE LET out == load_querylog(qFile)
            IN  CASE out.exc = "" ->
                       /\ df' = out.value
                       /\ cached_col' = \E i \in 1..Len(out.value) : out.value[i].hasCached
                       /\ upstream_col' = \E i \in 1..Len(out.value) : out.value[i].hasUpstream
                       /\ qCache' = [valid |-> TRUE, at |-> clock, value |-> out.value]
                       /\ qRead' = ReadAt(qCache, clock)
                       /\ pc' = "load_leases"
                       /\ UNCHANGED st_error
                  [] out.exc = "FileNotFoundError" ->
                       /\ st_error' = "Error loading data"
                       /\ pc' = AfterLoadError
                       /\ UNCHANGED << df, cached_col, upstream_col, qCache, qRead >>
                  [] OTHER ->
                       /\ st_error' = out.exc
                       /\ qRead' = ReadAt(qCache, clock)
                       /\ pc' = "crashed"
                       /\ UNCHANGED << df, cached_col, upstream_col, qCache >>
    /\ UNCHANGED << envVars, lCache, lRead, ip_to_hostname, normalized, now,
                    time_range, date_range, selected_clients, selected_domains,
                    selected_query_types, filter_selection, metrics, charts, raw_table,
                    tldVars, clsVars >>

\* line 116 inside the try of lines 114-119
LoadLeasesStep ==
    /\ pc = "load_leases"
    /\ IF IsFresh(lCache, LeasesTTL, clock)
       THEN /\ ip_to_hostname' = lCache.value
            /\ pc' = "normalize"
            /\ UNCHANGED << lCache, lRead, st_error >>
       ELSE LET out == load_leases(lFile)
            IN  IF out.exc = ""
                THEN /\ ip_to_hostname' = out.value
                     /\ lCache' = [valid |-> TRUE, at |-> clock, value |-> out.value]
                     /\ lRead' = ReadAt(lCache, clock)
                     /\ pc' = "normalize"
                     /\ UNCHANGED st_error
                ELSE /\ st_error' = "Error loading data"
                     /\ pc' = AfterLoadError
                     /\ UNCHANGED << ip_to_hostname, lCache, lRead >>
    /\ UNCHANGED << envVars, qCache, qRead, df, cached_col, upstream_col, normalized, now,
                    time_range, date_range, selected_clients, selected_domains,
                    selected_query_types, filter_selection, metrics, charts, raw_table,
                    tldVars, clsVars >>

\* lines 122-128; df["Result"] raises KeyError when no record of the log
\* has a Result key
NormalizeStep ==
    /\ pc = "normalize"
    /\ IF \A i \in 1..Len(df) : df[i].Result.kind = "absent"
       THEN /\ st_error' = "KeyError: 'Result'"
            /\ pc' = "crashed"
            /\ UNCHANGED << df, normalized >>
       ELSE /\ df' = [i \in 1..Len(df) |-> NormalizeRow(df[i], ip_to_hostname, cached_col)]
            /\ normalized' = df'
            /\ pc' = "time_filter"
            /\ UNCHANGED st_error
    /\ UNCHANGED << envVars, cacheVars, qRead, lRead, cached_col, upstream_col, ip_to_hostname,
                    now, time_range, date_range, selected_clients,
                    selected_domains, selected_query_types, filter_selection,
                    metrics, charts, raw_table, tldVars, clsVars >>

TimeRanges == {"Last 24 Hours", "Last Week", "Last Month", "Custom"}

\* what st.sidebar.date_input can return, lines 153-164: one date while
\* the range is being picked, or a pair of dates between the first and the
\* last day of the data (min_value, max_value)
DateRanges(frame, tr) ==
    IF tr = "Custom" /\ Len(frame) > 0
    THEN LET dates == { DateOf(frame[i].T) : i \in 1..Len(frame) }
             min_date == CHOOSE d \in dates : \A e \in dates : d <= e
             max_date == CHOOSE d \in dates : \A e \in dates : d >= e
             days == min_date..max_date
         IN  {NoDateRange} \cup
             { [complete |-> TRUE, start |-> p[1], end |-> p[2]] :
                 p \in { q \in days \X days : q[1] <= q[2] } }
    ELSE {NoDateRange}

\* lines 135-166
TimeFilterStep ==
    /\ pc = "time_filter"
    /\ now' = clock
    /\ \E tr \in TimeRanges : \E dr \in DateRanges(df, tr) :
          /\ time_range' = tr
          /\ date_range' = dr
          /\ df' = TimeFiltered(df, tr, dr, clock)
    /\ pc' = "client_filter"
    /\ UNCHANGED << envVars, cacheVars, qRead, lRead, cached_col, upstream_col, ip_to_hostname,
                    normalized, selected_clients, selected_domains,
                    selected_query_types, filter_selection, st_error, metrics,
                    charts, raw_table, tldVars, clsVars >>

\* lines 169-178
ClientFilterStep ==
    /\ pc = "client_filter"
    /\ \E sel \in SUBSET Unique(df, "hostname") :
          /\ selected_clients' = sel
          /\ df' = IsinFiltered(df, "hostname", sel)
    /\ pc' = "domain_filter"
    /\ UNCHANGED << envVars, cacheVars, qRead, lRead, cached_col, upstream_col, ip_to_hostname,
                    normalized, now, time_range, date_range, selected_domains,
                    selected_query_types, filter_selection, st_error, metrics,
                    charts, raw_table, tldVars, clsVars >>

\* lines 181-190
DomainFilterStep ==
    /\ pc = "domain_filter"
    /\ \E sel \in SUBSET Unique(df, "top_level_domain") :
          /\ selected_domains' = sel
          /\ df' = IsinFiltered(df, "top_level_domain", sel)
    /\ pc' = "qt_filter"
    /\ UNCHANGED << envVars, cacheVars, qRead, lRead, cached_col, upstream_col, ip_to_hostname,
                    normalized, now, time_range, date_range, selected_clients,
                    selected_query_types, filter_selection, st_error, metrics,
                    charts, raw_table, tldVars, clsVars >>

\* lines 193-202
QueryTypeFilterStep ==
    /\ pc = "qt_filter"
    /\ \E sel \in SUBSET Unique(df, "QT") :
          /\ selected_query_types' = sel
          /\ df' = IsinFiltered(df, "QT", sel)
    /\ pc' = "status_filter"
    /\ UNCHANGED << envVars, cacheVars, qRead, lRead, cached_col, upstream_col, ip_to_hostname,
                    normalized, now, time_range, date_range, selected_clients,
                    selected_domains, filter_selection, st_error, metrics,
                    charts, raw_table, tldVars, clsVars >>

FilterOptions == {"All", "Filtered Only", "Not Filtered Only"}

\* lines 205-211
StatusFilterStep ==
    /\ pc = "status_filter"
    /\ \E fs \in FilterOptions :
          /\ filter_selection' = fs
          /\ df' = StatusFiltered(df, fs)
    /\ pc' = "metrics"
    /\ UNCHANGED << envVars, cacheVars, qRead, lRead, cached_col, upstream_col, ip_to_hostname,
                    normalized, now, time_range, date_range, selected_clients,
                    selected_domains, selected_query_types, st_error, metrics,
                    charts, raw_table, tldVars, clsVars >>

\* lines 214-240
OverviewStep ==
    /\ pc = "metrics"
    /\ metrics' \in Overview(df, cached_col)
    /\ pc' = "charts"
    /\ UNCHANGED << envVars, cacheVars, qRead, lRead, df, cached_col, upstream_col,
                    ip_to_hostname, normalized, now, time_range, date_range,
                    selected_clients, selected_domains, selected_query_types,
                    filter_selection, st_error, charts, raw_table, tldVars, clsVars >>

\* lines 243-444; line 279 adds the column "hour" to a frame that has rows
ChartsStep ==
    /\ pc = "charts"
    /\ charts' \in Charts(df)
    /\ df' = IF Len(df) > 0 THEN AddHour(df) ELSE df
    /\ pc' = "raw_table"
    /\ UNCHANGED << envVars, cacheVars, qRead, lRead, cached_col, upstream_col,
                    ip_to_hostname, normalized, now, time_range, date_range,
                    selected_clients, selected_domains, selected_query_types,
                    filter_selection, st_error, metrics, raw_table, tldVars, clsVars >>

\* lines 447-485: with the box ticked, df[[..., "Upstream"]] raises
\* KeyError when no record of the log has an Upstream key
RawTableStep ==
    /\ pc = "raw_table"
    /\ \E show \in BOOLEAN :
          IF ~show
          THEN /\ raw_table' = NoTable
               /\ pc' = "done"
               /\ UNCHANGED st_error
          ELSE IF ~upstream_col
          THEN /\ st_error' = "KeyError: 'Upstream'"
               /\ pc' = "crashed"
               /\ UNCHANGED raw_table
          ELSE /\ \E search \in SearchTerms : raw_table' \in RawTable(df, search)
               /\ pc' = "done"
               /\ UNCHANGED st_error
    /\ UNCHANGED << envVars, cacheVars, qRead, lRead, df, cached_col, upstream_col,
                    ip_to_hostname, normalized, now, time_range, date_range,
                    selected_clients, selected_domains, selected_query_types,
                    filter_selection, metrics, charts, tldVars, clsVars >>

-----------------------------------------------------------------------------
(* Re-execution, the passing of time and the files on disk                 *)

RunDefaults ==
    /\ qRead = NotRead
    /\ lRead = NotRead
    /\ df = << >>
    /\ cached_col = FALSE
    /\ upstream_col = FALSE
    /\ ip_to_hostname = EmptyDict
    /\ normalized = << >>
    /\ now = 0
    /\ time_range = "Last 24 Hours"
    /\ date_range = NoDateRange
    /\ selected_clients = {}
    /\ selected_domains = {}
    /\ selected_query_types = {}
    /\ filter_selection = "All"
    /\ st_error = ""
    /\ metrics = NoMetrics
    /\ charts = NoCharts
    /\ raw_table = NoTable

\* the framework runs the script again from line 1 on a fresh page; the
\* two caches are all that survives
Rerun ==
    /\ pc \in Ended
    /\ pc' = "start"
    /\ qRead' = NotRead
    /\ lRead' = NotRead
    /\ df' = << >>
    /\ cached_col' = FALSE
    /\ upstream_col' = FALSE
    /\ ip_to_hostname' = EmptyDict
    /\ normalized' = << >>
    /\ now' = 0
    /\ time_range' = "Last 24 Hours"
    /\ date_range' = NoDateRange
    /\ selected_clients' = {}
    /\ selected_domains' = {}
    /\ selected_query_types' = {}
    /\ filter_selection' = "All"
    /\ st_error' = ""
    /\ metrics' = NoMetrics
    /\ charts' = NoCharts
    /\ raw_table' = NoTable
    /\ UNCHANGED << envVars, cacheVars, tldVars, clsVars >>

StartClock == 60000
TickStep == 20
MaxTicks == 4

\* time passes between two executions
Tick ==
    /\ pc = "start"
    /\ clock < StartClock + MaxTicks * TickStep
    /\ clock' = clock + TickStep
    /\ UNCHANGED << qFile, lFile, cacheVars, runVars, tldVars, clsVars >>

ip1 == "10.0.0.1"
ip2 == "10.0.0.2"
ip3 == "10.0.0.3"

h_www_google_com == JoinDots(<< s_www, s_google, s_com >>)
h_google_com     == JoinDots(<< s_google, s_com >>)
h_ads_Mail_co_uk == JoinDots(<< s_ads, s_Mail, s_CO, s_uk >>)

Allowed    == Obj(TRUE, IntReason(0), TRUE, FALSE, TRUE)
BlockedBy3 == Obj(TRUE, IntReason(3), TRUE, TRUE, TRUE)
Unknown9   == Obj(TRUE, IntReason(9), TRUE, TRUE, FALSE)
NoReasonKey == Obj(FALSE, NoReason, TRUE, TRUE, FALSE)
NoFlagKey  == Obj(TRUE, IntReason(1), FALSE, FALSE, FALSE)
NullReason == Obj(TRUE, NoneReason, TRUE, FALSE, FALSE)

\* the rows the logs are made of: ages of an hour, a day less ten minutes,
\* two days, eight days and five weeks at StartClock
RowPool ==
    { RawRow(StartClock - 60,    ip1, h_www_google_com, "A",     Allowed,        TRUE,  TRUE,  TRUE),
      RawRow(StartClock - 2880,  ip2, h_ads_Mail_co_uk, "AAAA",  BlockedBy3,     TRUE,  FALSE, TRUE),
      RawRow(StartClock - 11520, ip1, s_Localhost,      "A",     NonObj("absent"), FALSE, FALSE, TRUE),
      RawRow(StartClock - 50400, ip3, << >>,            "HTTPS", NonObj("null"), FALSE, FALSE, FALSE),
      RawRow(StartClock - 60,    ip2, h_google_com,     "A",     Unknown9,       FALSE, FALSE, FALSE),
      RawRow(StartClock - 1430,  ip1, h_www_google_com, "HTTPS", NonObj("str"),  TRUE,  TRUE,  TRUE),
      RawRow(StartClock - 60,    ip3, h_ads_Mail_co_uk, "A",     NoReasonKey,    FALSE, FALSE, TRUE),
      RawRow(StartClock - 2880,  ip1, h_google_com,     "AAAA",  NoFlagKey,      FALSE, FALSE, FALSE),
      RawRow(StartClock - 60,    ip1, s_Localhost,      "A",     NullReason,     FALSE, FALSE, TRUE) }

LinePool == { JsonLine(r) : r \in RowPool } \cup { BlankLine, BadLine }

MaxLines == 3
MaxRows == 2

SeqsUpTo(S, n) == UNION { [1..k -> S] : k \in 0..n }

Lease(ip, hostname) == [ip |-> ip, hostname |-> hostname]

\* a lease, a lease without hostname, and a second lease of the first IP
SomeLeases == << Lease(ip1, "laptop"), Lease(ip2, ""), Lease(ip1, "desk"),
                 Lease("", "ghost") >>

\* the query logs and lease files the loaders and the normalisation are
\* run on: any lines, blank and broken ones included
NormQFiles == { File(c) : c \in SeqsUpTo(LinePool, MaxLines) }
NormLFiles == { File(<< >>), File(SomeLeases) }

\* the rows the filters and aggregations are run on: two clients, three
\* domains, three query types, blocked and not, of four ages
FilterRows ==
    { r \in RowPool : r.Result \in {Allowed, BlockedBy3, Unknown9, NonObj("absent"), NonObj("str")} }
PipeQFiles == { File(c) : c \in SeqsUpTo({ JsonLine(r) : r \in FilterRows }, MaxRows) }
PipeLFiles == { File(SomeLeases) }

\* the files that come and go between executions
FreshRow == RawRow(StartClock - 60,   ip1, h_www_google_com, "A", Allowed,    TRUE,  TRUE,  TRUE)
AgingRow == RawRow(StartClock - 1430, ip2, h_ads_Mail_co_uk, "A", BlockedBy3, FALSE, FALSE, FALSE)
QFiles == { MissingFile, File(<< JsonLine(FreshRow) >>), File(<< JsonLine(AgingRow) >>) }
LFiles == { MissingFile, File(<< Lease(ip1, "laptop") >>) }

\* data/querylog.json is written, replaced or removed
ReplaceQuerylog ==
    /\ pc = "start"
    /\ \E f \in QFiles \ {qFile} : qFile' = f
    /\ UNCHANGED << clock, lFile, cacheVars, runVars, tldVars, clsVars >>

\* data/leases.json is written or removed
ReplaceLeases ==
    /\ pc = "start"
    /\ \E f \in LFiles \ {lFile} : lFile' = f
    /\ UNCHANGED << clock, qFile, cacheVars, runVars, tldVars, clsVars >>

-----------------------------------------------------------------------------
(* Harness of the pure helpers                                             *)

MaxLabels == 4

\* the labels hosts are made of: empty, mixed case, and the halves of
\* table suffixes and of near misses
LabelPool == { << >>, s_Mail, s_com, s_co, s_CO, s_uk, s_org, s_3gpp }

LabelSeqs == UNION { [1..k -> LabelPool] : k \in 1..MaxLabels }

TldIdle ==
    /\ labels = << >>
    /\ host = << >>
    /\ tld = << >>
    /\ tpc = "off"

\* df["QH"].apply(extract_top_level_domain), line 123, on one host
Extract ==
    /\ tpc = "in"
    /\ tld' = extract_top_level_domain(host)
    /\ tpc' = "out"
    /\ UNCHANGED << envVars, cacheVars, runVars, labels, host, clsVars >>

MaxCode == 3

Reasons == { NoneReason } \cup { IntReason(n) : n \in (0 - MaxCode)..(7 + MaxCode) }

Results ==
    { NonObj(k) : k \in {"absent", "null", "str", "num"} }
    \cup { Obj(TRUE, r, hf, f, o) :
             r \in Reasons, hf \in BOOLEAN, f \in BOOLEAN, o \in BOOLEAN }
    \cup { Obj(FALSE, NoReason, hf, f, o) :
             hf \in BOOLEAN, f \in BOOLEAN, o \in BOOLEAN }

ClsIdle ==
    /\ result = NonObj("null")
    /\ filter_status = ""
    /\ is_filtered = FALSE
    /\ fpc = "off"

\* lines 124-127 on one Result value
Classify ==
    /\ fpc = "in"
    /\ filter_status' = get_filter_reason(result)
    /\ is_filtered' = is_filtered_of(result)
    /\ fpc' = "out"
    /\ UNCHANGED << envVars, cacheVars, runVars, tldVars, result >>

-----------------------------------------------------------------------------
(* Specifications                                                          *)

\* the dashboard over time: executions, the clock, the files
Init ==
    /\ clock = StartClock
    /\ qFile \in QFiles
    /\ lFile \in LFiles
    /\ qCache = EmptyCache(<< >>)
    /\ lCache = EmptyCache(EmptyDict)
    /\ pc = "start"
    /\ RunDefaults
    /\ TldIdle
    /\ ClsIdle

Next ==
    \/ LoadQuerylogStep
    \/ LoadLeasesStep
    \/ NormalizeStep
    \/ TimeFilterStep
    \/ ClientFilterStep
    \/ DomainFilterStep
    \/ QueryTypeFilterStep
    \/ StatusFilterStep
    \/ OverviewStep
    \/ ChartsStep
    \/ RawTableStep
    \/ Rerun
    \/ Tick
    \/ ReplaceQuerylog
    \/ ReplaceLeases

Spec == Init /\ [][Next]_vars

\* the loaders and the normalisation over any log of up to MaxLines lines
InitNormalize ==
    /\ clock = StartClock
    /\ qFile \in NormQFiles
    /\ lFile \in NormLFiles
    /\ qCache = EmptyCache(<< >>)
    /\ lCache = EmptyCache(EmptyDict)
    /\ pc = "start"
    /\ RunDefaults
    /\ TldIdle
    /\ ClsIdle

NextNormalize ==
    \/ LoadQuerylogStep
    \/ LoadLeasesStep
    \/ NormalizeStep

SpecNormalize == InitNormalize /\ [][NextNormalize]_vars

\* one whole execution over any log of up to MaxRows rows
InitPipe ==
    /\ clock = StartClock
    /\ qFile \in PipeQFiles
    /\ lFile \in PipeLFiles
    /\ qCache = EmptyCache(<< >>)
    /\ lCache = EmptyCache(EmptyDict)
    /\ pc = "start"
    /\ RunDefaults
    /\ TldIdle
    /\ ClsIdle

NextPipe ==
    \/ LoadQuerylogStep
    \/ LoadLeasesStep
    \/ NormalizeStep
    \/ TimeFilterStep
    \/ ClientFilterStep
    \/ DomainFilterStep
    \/ QueryTypeFilterStep
    \/ StatusFilterStep
    \/ OverviewStep
    \/ ChartsStep
    \/ RawTableStep

SpecPipe == InitPipe /\ [][NextPipe]_vars

RunOff ==
    /\ clock = StartClock
    /\ qFile = MissingFile
    /\ lFile = MissingFile
    /\ qCache = EmptyCache(<< >>)
    /\ lCache = EmptyCache(EmptyDict)
    /\ pc = "off"
    /\ RunDefaults

\* extract_top_level_domain over hosts of up to MaxLabels labels
InitTld ==
    /\ RunOff
    /\ ClsIdle
    /\ labels \in LabelSeqs
    /\ host = JoinDots(labels)
    /\ tld = << >>
    /\ tpc = "in"

NextTld == Extract

SpecTld == InitTld /\ [][NextTld]_vars

\* get_filter_reason and the is_filtered lambda over Result values
InitClassify ==
    /\ RunOff
    /\ TldIdle
    /\ result \in Results
    /\ filter_status = ""
    /\ is_filtered = FALSE
    /\ fpc = "in"

NextClassify == Classify

SpecClassify == InitClassify /\ [][NextClassify]_vars

-----------------------------------------------------------------------------
(* Properties                                                              *)

\* the ten suffixes of the table, as pairs of labels
SuffixPairs ==
    { << s_co, s_uk >>, << s_com, s_au >>, << s_co, s_nz >>, << s_co, s_jp >>,
      << s_com, s_br >>, << s_org, s_uk >>, << s_net, s_au >>, << s_ac, s_uk >>,
      << s_gov, s_uk >>, << s_3gpp, s_org >> }

\* C1: a host of three or more labels yields its last three lower-cased
\* labels when the last two, lower-cased, are a suffix of the table, and
\* its last two lower-cased labels otherwise.
C1_ThreeOrMoreLabels ==
    (tpc = "out" /\ Len(labels) >= 3) =>
        LET n == Len(labels)
            a == Lower(labels[n - 2])
            b == Lower(labels[n - 1])
            c == Lower(labels[n])
        IN  tld = IF << b, c >> \in SuffixPairs
                  THEN JoinDots(<< a, b, c >>)
                  ELSE JoinDots(<< b, c >>)

C1_Witness ==
    /\ tpc = "out"
    /\ labels = << s_Mail, s_Mail, s_CO, s_uk >>
    /\ tld = JoinDots(<< Lower(s_Mail), s_co, s_uk >>)

\* C2: a host of one label (the empty host included) is returned as it
\* is, upper case kept; a host of two labels is returned lower-cased and
\* whole, also when the two labels are a suffix of the table.
C2_AtMostTwoLabels ==
    (tpc = "out" /\ Len(labels) <= 2) =>
        IF Len(labels) = 1 THEN tld = host ELSE tld = Lower(host)

C2_Witness ==
    /\ tpc = "out"
    /\ labels = << s_CO, s_uk >>
    /\ tld = Dot(s_co, s_uk)

Labels8 == << "Not Filtered", "Blocked by Filter", "Blocked (Safebrowsing)",
              "Blocked by Rule", "Blocked (Parental)", "Rewritten",
              "Rewritten (Hosts)", "Rewritten (Safe Search)" >>

\* C3: a result object with an integer reason code n is labelled with the
\* n-th entry of the table for n in 0..7 and "Unknown (n)" for any other n.
C3_ReasonTable ==
    (fpc = "out" /\ result.kind = "obj" /\ result.hasReason /\ result.reason.isInt) =>
        LET n == result.reason.v
        IN  filter_status = IF n \in 0..7 THEN Labels8[n + 1]
                            ELSE "Unknown (" \o ToString(n) \o ")"

C3_Witness ==
    /\ fpc = "out"
    /\ result.kind = "obj" /\ result.hasReason
    /\ result.reason = IntReason(0 - 1)
    /\ filter_status = "Unknown (-1)"

\* C4 as claimed: every normalised row carries one of the eight labels.
C4_AlwaysOneOfEight ==
    \A i \in 1..Len(normalized) : normalized[i].filter_status \in SeqRange(Labels8)

\* C4 as amended: a normalised row carries one of the eight labels unless
\* its Result is an object whose Reason is present and not a code in 0..7;
\* then it carries "Unknown (<code>)".  It never carries no label.
C4_OneOfEightOrUnknown ==
    \A i \in 1..Len(normalized) :
        LET x == normalized[i].Result
            label == normalized[i].filter_status
        IN  /\ label # "None"
            /\ IF x.kind = "obj" /\ x.hasReason /\ ~(x.reason.isInt /\ x.reason.v \in 0..7)
               THEN label = IF x.reason.isInt
                            THEN "Unknown (" \o ToString(x.reason.v) \o ")"
                            ELSE "Unknown (None)"
               ELSE label \in SeqRange(Labels8)

C4_Witness ==
    /\ pc = "time_filter"
    /\ \E i, j \in 1..Len(normalized) :
          /\ normalized[i].Result = Unknown9
          /\ normalized[i].filter_status = "Unknown (9)"
          /\ normalized[j].Result = NonObj("absent")
          /\ normalized[j].filter_status = "Not Filtered"

\* the records of the lines that parse, in file order
ParseableRows(lines) ==
    LET kept == SelectSeq(lines, LAMBDA l : l.kind = "json")
    IN  [i \in 1..Len(kept) |-> kept[i].rec]

\* C5 as claimed: a line that is no JSON never aborts the load, and what
\* is loaded is the records of the lines that parse, in file order.
C5_MalformedLinesSkipped ==
    /\ st_error # "JSONDecodeError"
    /\ pc = "load_leases" => df = ParseableRows(qFile.content)

\* the defaults of C6 on the rows the normalisation has yielded
DefaultsOfNormalizedRows ==
    \A i \in 1..Len(normalized) :
        LET x == normalized[i].Result
            r == normalized[i]
        IN  /\ x.kind # "obj" => (r.filter_status = "Not Filtered" /\ r.is_filtered = FALSE)
            /\ (x.kind = "obj" /\ ~x.hasFlag) => r.is_filtered = FALSE
            /\ (x.kind = "obj" /\ ~x.hasReason) => r.filter_status = "Not Filtered"

\* C6 as claimed: the normalisation yields a row for every record loaded,
\* never raising on a missing Result, and in these rows a Result that is
\* absent, null or no object reads "Not Filtered" and not filtered, an
\* object without IsFiltered is not filtered and an object without Reason
\* is "Not Filtered".
C6_SafeDefaults ==
    /\ st_error # "KeyError: 'Result'"
    /\ pc = "time_filter" => Len(normalized) = Len(qCache.value)
    /\ DefaultsOfNormalizedRows

\* C6: records that all lack the Result key have been loaded and the
\* normalisation has ended the execution on them
C6_Witness ==
    /\ pc = "crashed"
    /\ st_error = "KeyError: 'Result'"
    /\ df # << >>
    /\ \A i \in 1..Len(df) : df[i].Result = NonObj("absent")
    /\ normalized = << >>

\* C7 as claimed: an execution that has passed a loader whose file is
\* missing has reported the error and stopped, with nothing normalised and
\* no metric and no chart shown.  (The files change between executions
\* only.)
C7_MissingFileAlwaysHalts ==
    /\ (pc # "start" /\ ~qFile.present) =>
          (pc = "stopped" /\ st_error = "Error loading data"
           /\ normalized = << >> /\ ~metrics.shown /\ ~charts.shown)
    /\ (pc \notin {"start", "load_leases"} /\ ~lFile.present) =>
          (pc = "stopped" /\ st_error = "Error loading data"
           /\ normalized = << >> /\ ~metrics.shown /\ ~charts.shown)

\* C7 amended: a loader that holds no cached value younger than its time
\* to live and finds its file missing makes the execution report the
\* error and stop; an execution that reported it has normalised nothing
\* and shows no metric and no chart.
C7_MissingFileHalts ==
    /\ [](st_error = "Error loading data" =>
            (pc = "stopped" /\ normalized = << >> /\ ~metrics.shown /\ ~charts.shown))
    /\ [][ /\ (pc = "start" /\ pc' # "start" /\ ~qFile.present
               /\ ~(qCache.valid /\ clock - qCache.at < QueryLogTTL))
              => (pc' = "stopped" /\ st_error' = "Error loading data")
           /\ (pc = "load_leases" /\ pc' # "load_leases" /\ ~lFile.present
               /\ ~(lCache.valid /\ clock - lCache.at < LeasesTTL))
              => (pc' = "stopped" /\ st_error' = "Error loading data") ]_vars

C7_Witness ==
    /\ pc = "stopped"
    /\ st_error = "Error loading data"
    /\ qFile.present /\ ~lFile.present
    /\ df # << >>
    /\ normalized = << >>

\* C8: a loader's body reads the file only when nothing is cached or the
\* cached value is as old as its time to live (5 minutes for the query
\* log, 60 for the leases); a call made while the cached value is younger
\* returns that value, reads nothing and leaves the cache as it is.
C8_ReadOncePerWindow ==
    /\ [](qRead.done => (qRead.age = NoAge \/ qRead.age >= QueryLogTTL))
    /\ [](lRead.done => (lRead.age = NoAge \/ lRead.age >= LeasesTTL))
    /\ [][ /\ (pc = "start" /\ pc' # "start"
               /\ qCache.valid /\ clock - qCache.at < QueryLogTTL)
              => (pc' = "load_leases" /\ df' = qCache.value
                  /\ qRead' = NotRead /\ qCache' = qCache)
           /\ (pc = "load_leases" /\ pc' # "load_leases"
               /\ lCache.valid /\ clock - lCache.at < LeasesTTL)
              => (pc' = "normalize" /\ ip_to_hostname' = lCache.value
                  /\ lRead' = NotRead /\ lCache' = lCache) ]_vars

C8_Witness ==
    /\ pc = "normalize"
    /\ ~qRead.done /\ ~lRead.done
    /\ ~qFile.present
    /\ df = qCache.value /\ df # << >>
    /\ clock - lCache.at > QueryLogTTL
    /\ ip_to_hostname = lCache.value

RECURSIVE IsSubSeq(_, _)
IsSubSeq(a, b) ==
    IF a = << >> THEN TRUE
    ELSE IF b = << >> THEN FALSE
    ELSE IF a[1] = b[1] THEN IsSubSeq(Tail(a), Tail(b))
    ELSE IsSubSeq(a, Tail(b))

\* the predicate of the time range in force
TimeOK(r) ==
    CASE time_range = "Last 24 Hours" -> r.T >= now - 1440
      [] time_range = "Last Week"     -> r.T >= now - 7 * 1440
      [] time_range = "Last Month"    -> r.T >= now - 30 * 1440
      [] OTHER -> date_range.complete =>
                     (date_range.start <= r.T \div 1440 /\ r.T \div 1440 <= date_range.end)

\* the conjunction of the five predicates; an empty selection and "All"
\* are always true
AllOK(r) ==
    /\ TimeOK(r)
    /\ selected_clients = {} \/ r.hostname \in selected_clients
    /\ selected_domains = {} \/ r.top_level_domain \in selected_domains
    /\ selected_query_types = {} \/ r.QT \in selected_query_types
    /\ filter_selection = "Filtered Only" => r.is_filtered
    /\ filter_selection = "Not Filtered Only" => ~r.is_filtered

\* C9: after every filter step the frame is the normalised rows that
\* satisfy all predicates chosen so far, in their order; each step leaves a
\* sub-sequence of what it was given; with no selection and "All" the
\* time-filtered rows pass unchanged.  The charts add the column "hour" to
\* these rows and drop or move none.
C9_FilterChain ==
    /\ [](pc \in {"client_filter", "domain_filter", "qt_filter", "status_filter",
                  "metrics", "charts"}
            => df = SelectSeq(normalized, AllOK))
    /\ [](pc \in {"raw_table", "done"}
            => df = AddHour(SelectSeq(normalized, AllOK)))
    /\ [][(pc \in {"time_filter", "client_filter", "domain_filter", "qt_filter",
                   "status_filter"}) => IsSubSeq(df', df)]_vars

C9_Witness ==
    /\ pc = "metrics"
    /\ time_range = "Last Week"
    /\ selected_clients # {} /\ selected_query_types # {}
    /\ filter_selection = "Filtered Only"
    /\ Len(normalized) = 2 /\ Len(df) = 1
    /\ df[1] = normalized[2]

=============================================================================
